---- MODULE Spec2Model ----
(***************************************************************************)
(* Apartment tracker: the data synchronisation and storage-reference       *)
(* resolution layer.                                                       *)
(*                                                                         *)
(*   - the backend availability detector  (isServerAvailable)              *)
(*   - the blob reference resolver        (saveImageDataUrl,               *)
(*                                         getImageObjectURL)              *)
(*   - the object storage client          (saveApartmentsToCloud,          *)
(*                                         uploadImageToCloud, ...)        *)
(*   - the document sync engine           (App load effect, saveProperties)*)
(*   - the proxy endpoints of the dev server (apiPlugin)                   *)
(*   - the key/value endpoint of the sync code (fetchRemoteData,           *)
(*                                         pushDataToRemote)               *)
(*                                                                         *)
(* JavaScript runs every callback to completion: the code between two      *)
(* awaits that wait for the network (or for IndexedDB) is one atomic step. *)
(* An await of an already settled promise resumes in the same microtask    *)
(* checkpoint, before any other network event is delivered, so it does not *)
(* end a step.                                                             *)
(***************************************************************************)
EXTENDS Integers, Sequences, FiniteSets, TLC

\* ------------------------------------------------------------------ bounds

\* concurrent saveImageDataUrl calls
NumPersist == 2
\* concurrent getImageObjectURL calls
NumResolve == 1
\* calls of saveProperties
MaxUserSaves == 2
\* page reloads
MaxReloads == 1
\* uses of a card beside the form
MaxCardOps == 1

PersistIds == 1..NumPersist
ResolveIds == 1..NumResolve

\* ------------------------------------------------------------------ strings

\* A string is a sequence of tokens; the operators below are the String
\* methods the code uses, on that representation.
StartsWith(s, tok) == Len(s) > 0 /\ s[1] = tok

\* s.replace(tok, ''): the first occurrence of tok is removed
RECURSIVE Replace(_, _)
Replace(s, tok) ==
    IF s = <<>> THEN <<>>
    ELSE IF Head(s) = tok THEN Tail(s)
    ELSE <<Head(s)>> \o Replace(Tail(s), tok)

\* s.includes(sub)
Includes(s, sub) ==
    \E i \in 1..(Len(s) + 1) :
        /\ i + Len(sub) - 1 <= Len(s)
        /\ SubSeq(s, i, i + Len(sub) - 1) = sub

\* the outcomes of Date.now().toString(36) + '-' + Math.random().toString(36).slice(2, 9)
Suffixes == {"s1", "s2"}

\* key minted by uploadImageToCloud and by the proxy: <time>-<random>.<ext>
BareKey(sfx) == <<sfx, ".png">>
\* key minted by the IndexedDB fallback: 'idb-' + <time>-<random>
IdbKey(sfx) == <<"idb-", sfx>>

\* ------------------------------------------------------------------ detector

Null == "null"
BoolStr(b) == IF b THEN "true" ELSE "false"

JsonType == <<"application", "/", "json">>
NoHeader == <<"(no content-type header)">>
ContentTypes ==
    { NoHeader,
      JsonType,
      JsonType \o <<"; charset=utf-8">>,
      <<"text", "/", "html">> }

NoProbe == [kind |-> "none"]
ProbeOutcomes ==
    { [kind |-> "timeout"], [kind |-> "neterror"] }
    \cup { [kind |-> "response", ok |-> o, ct |-> c] :
             o \in BOOLEAN, c \in ContentTypes }

\* res.headers.get('content-type') || ''
HeaderOrEmpty(h) == IF h = NoHeader THEN <<>> ELSE h

\* The value isServerAvailable computes from the outcome of its probe.
\* (ProbeResultNoContentType: what it would compute from res.ok alone.)
ProbeResultNoContentType(out) == out.kind = "response" /\ out.ok
ProbeResult(out) ==
    IF out.kind = "response"
    THEN out.ok /\ Includes(HeaderOrEmpty(out.ct), JsonType)
    ELSE FALSE

\* ------------------------------------------------------------------ requests

ReqStatus      == "/api/supabase/status"
ReqFileImage   == "/api/images"
ReqProxyImage  == "/api/supabase/image"
ReqProxyData   == "/api/supabase/data"
ReqDirectImage == "supabase:/storage/v1/object/apartment-images/images"

ProxyPaths == {ReqStatus, ReqFileImage, ReqProxyImage, ReqProxyData}

\* uploadImageToCloud: the branch taken on the value isServerAvailable gives it.
\* (UploadRouteAlwaysProxy: an upload that would not look at that value.)
UploadRouteAlwaysProxy(server) == "proxy"
UploadRoute(server) == IF server THEN "proxy" ELSE "direct"

\* ------------------------------------------------------------------ listings

\* A Property object is a function from the keys it has to their values.  An
\* optional key may be missing, or present with the value undefined.
Undefined == "undefined"
OptionalFields == {"rating"}
RequiredFields == {"id", "title", "images"}

\* o.k as JavaScript reads it
Field(o, k) == IF k \in DOMAIN o THEN o[k] ELSE Undefined

\* { ...p, ...updates }
Spread(p, u) ==
    [k \in DOMAIN p \cup DOMAIN u |-> IF k \in DOMAIN u THEN u[k] ELSE p[k]]

\* the title the load effect migrates to ''  (the former default title)
LegacyTitle == "dira hadasha"

\* JSON.stringify of an object: a key whose value is undefined is left out
StringifyObject(o) ==
    [k \in {f \in DOMAIN o : ~(f \in OptionalFields /\ o[f] = Undefined)} |-> o[k]]

\* A response body or a stored text: a JSON array of listings, or text that
\* is not JSON.
JsonArray(c) == [kind |-> "array", data |-> c]
NotJson == [kind |-> "invalid"]
\* JSON text of a value that is no array: an object
JsonObject == [kind |-> "object"]

\* JSON.stringify(collection)
Stringify(c) == JsonArray([i \in 1..Len(c) |-> StringifyObject(c[i])])

\* equality of two listings, field by field
SameListing(a, b) ==
    /\ \A k \in RequiredFields : a[k] = b[k]
    /\ \A k \in OptionalFields : Field(a, k) = Field(b, k)

SameCollection(x, y) ==
    /\ Len(x) = Len(y)
    /\ \A i \in 1..Len(x) : SameListing(x[i], y[i])

\* the references a stored collection may hold
IdbRef(sfx) == <<"idb://">> \o IdbKey(sfx)
OddRef == <<"idb://", "s1", ".png">>

\* ------------------------------------------------------------------ state

VARIABLES
    serverAvailable,   \* _serverAvailable: "null", "true" or "false"
    githubHost,        \* window.location.hostname.includes('github.io')
    statusRequests,    \* number of GET /api/supabase/status issued
    lastProbe,         \* the latest probe outcome and the value returned for it
    persist,           \* the saveImageDataUrl calls
    resolves,          \* the getImageObjectURL calls
    idb,               \* keys of the IndexedDB store 'images'
    files,             \* files of the proxy's data/images directory
    cloudImages,       \* objects under images/ of the remote bucket
    remoteDoc,         \* the object data/apartments.json of the remote bucket
    localItem,         \* localStorage item 'apartments'
    quota,             \* room left in localStorage
    properties,        \* React state `properties`
    load,              \* the load effect of the current page
    saves,             \* the saveApartmentsToCloud calls of the current page, in call order
    prevSave,          \* the last saveApartmentsToCloud call of the page before
    userSaves,         \* calls of saveProperties so far
    sessions,          \* page reloads so far
    listed,            \* values of the cache at the calls of getCloudStorageUsage
    edit,              \* the handleFinalSave call of the current page
    deletes,           \* the deleteImageKey calls of the current page, in call order
    gets,              \* the GET /api/images/<key> requests the proxy has taken, in order
    channel            \* the key/value endpoint of the sync code, its polls and pushes

detVars == <<serverAvailable, githubHost, statusRequests, lastProbe>>
imgVars == <<persist, resolves, idb, files, cloudImages>>
opVars == <<edit, deletes>>
syncVars == <<remoteDoc, localItem, quota, gets, channel, properties, load, saves,
             prevSave, userSaves, sessions, listed, opVars>>
vars == <<serverAvailable, githubHost, statusRequests, lastProbe, persist, resolves,
          idb, files, cloudImages, remoteDoc, localItem, quota, properties, load,
          saves, prevSave, userSaves, sessions, listed, edit, deletes, gets, channel>>

NoKey == <<>>
NoUpload == [pc |-> "none", blocking |-> FALSE, key |-> NoKey]

IdlePersist ==
    [pc |-> "idle", server |-> Null, reqs |-> {}, key |-> NoKey, up |-> NoUpload]

NoUrl == [via |-> "null", key |-> NoKey]
IdleResolve ==
    [pc |-> "idle", ref |-> NoKey, server |-> Null,
     url |-> NoUrl, usedIdb |-> FALSE, usedNet |-> FALSE]

InitDetector ==
    /\ serverAvailable = Null
    /\ githubHost \in BOOLEAN
    /\ statusRequests = 0
    /\ lastProbe = [out |-> NoProbe, result |-> FALSE]

InitImages ==
    /\ persist = [i \in PersistIds |-> IdlePersist]
    /\ resolves = [j \in ResolveIds |-> IdleResolve]
    /\ files = {}
    /\ cloudImages = {}
    /\ gets = <<>>

\* ------------------------------------------------------------------ isServerAvailable

\* isServerAvailable returns without awaiting the network: the cached value,
\* or false on a github.io host
\* (DetectorImmediateCacheOnly: a detector that would not look at the host.)
DetectorImmediateCacheOnly == serverAvailable # Null
DetectorImmediate == serverAvailable # Null \/ githubHost

ImmediateValue == IF serverAvailable # Null THEN serverAvailable = "true" ELSE FALSE

\* ------------------------------------------------------------------ uploadImageToCloud

\* The synchronous head of uploadImageToCloud, called when the cache holds
\* `cache`: the record of the upload and the request it issues.
UploadStart(cache, blocking) ==
    IF UploadRoute(cache = "true") = "proxy"
    THEN [pc |-> "proxyReq", blocking |-> blocking, key |-> NoKey]
    ELSE [pc |-> "directReq", blocking |-> blocking, key |-> NoKey]

UploadRequest(up) == IF up.pc = "proxyReq" THEN ReqProxyImage ELSE ReqDirectImage

\* ------------------------------------------------------------------ saveImageDataUrl

\* saveImageDataUrl resumes with the detector's answer `v`; `cache` is the
\* value of _serverAvailable at that moment.
PersistBranch(p, v, cache) ==
    IF v
    THEN [p EXCEPT !.pc = "fileReq", !.server = BoolStr(v),
                   !.reqs = @ \cup {ReqFileImage}]
    ELSE LET up == UploadStart(cache, TRUE)
         IN [p EXCEPT !.pc = "cloudWait", !.server = BoolStr(v),
                      !.up = up, !.reqs = @ \cup {UploadRequest(up)}]

\* saveImageDataUrl(dataUrl) up to its first await that waits, as call i
PersistCall(i) ==
    IF DetectorImmediate
    THEN /\ serverAvailable' = BoolStr(ImmediateValue)
         /\ persist' = [persist EXCEPT ![i] =
                PersistBranch(@, ImmediateValue, BoolStr(ImmediateValue))]
         /\ UNCHANGED statusRequests
    ELSE /\ statusRequests' = statusRequests + 1
         /\ persist' = [persist EXCEPT ![i].pc = "probing"]
         /\ UNCHANGED serverAvailable

PersistStart(i) ==
    /\ persist[i].pc = "idle"
    /\ PersistCall(i)
    /\ UNCHANGED <<githubHost, lastProbe, resolves, idb, files, cloudImages, syncVars>>

PersistProbed(i, outs) ==
    /\ persist[i].pc = "probing"
    /\ \E out \in outs :
        LET v == ProbeResult(out) IN
        /\ serverAvailable' = BoolStr(v)
        /\ lastProbe' = [out |-> out, result |-> v]
        /\ persist' = [persist EXCEPT ![i] = PersistBranch(@, v, BoolStr(v))]
    /\ UNCHANGED <<githubHost, statusRequests, resolves, idb, files, cloudImages, syncVars>>

PersistProbeDone(i) == PersistProbed(i, ProbeOutcomes)

\* saveImageDataUrl after saveImageToFile threw: the catch only logs, and
\* the call goes on to the IndexedDB fallback.
\* (AfterFileFailureDirect: a call that would try a direct upload next.)
AfterFileFailureDirect(p) ==
    [p EXCEPT !.pc = "cloudWait",
              !.up = [pc |-> "directReq", blocking |-> TRUE, key |-> NoKey],
              !.reqs = @ \cup {ReqDirectImage}]
AfterFileFailure(p) == [p EXCEPT !.pc = "idbPut"]

\* POST /api/images answered (or failed)
PersistFileDone(i) ==
    /\ persist[i].pc = "fileReq"
    /\ \/ \E sfx \in Suffixes :
            LET key == BareKey(sfx)
                up == UploadStart(serverAvailable, FALSE)
            IN /\ files' = files \cup {key}
               /\ persist' = [persist EXCEPT ![i].pc = "done", ![i].key = key,
                                  ![i].up = up,
                                  ![i].reqs = @ \cup {UploadRequest(up)}]
       \/ /\ persist' = [persist EXCEPT ![i] = AfterFileFailure(@)]
          /\ UNCHANGED files
    /\ UNCHANGED <<detVars, resolves, idb, cloudImages, syncVars>>

\* saveImageDataUrl after its blocking uploadImageToCloud settled.
\* (PersistAfterUploadNoThrow: an upload whose failure would not throw.)
PersistAfterUploadNoThrow(p, up) ==
    IF ~up.blocking THEN [p EXCEPT !.up = up]
    ELSE [p EXCEPT !.up = up, !.pc = "done", !.key = up.key]
PersistAfterUpload(p, up) ==
    IF ~up.blocking THEN [p EXCEPT !.up = up]
    ELSE IF up.pc = "ok" THEN [p EXCEPT !.up = up, !.pc = "done", !.key = up.key]
    ELSE [p EXCEPT !.up = up, !.pc = "idbPut"]

\* POST /api/supabase/image answered (or failed)
UploadProxyDone(i) ==
    /\ persist[i].up.pc = "proxyReq"
    /\ \/ \E sfx \in Suffixes :
            LET key == BareKey(sfx) IN
            /\ cloudImages' = cloudImages \cup {key}
            /\ persist' = [persist EXCEPT ![i] =
                   PersistAfterUpload(@, [@.up EXCEPT !.pc = "ok", !.key = key])]
       \/ /\ persist' = [persist EXCEPT ![i] =
                   PersistAfterUpload(@, [@.up EXCEPT !.pc = "failed"])]
          /\ UNCHANGED cloudImages
    /\ UNCHANGED <<detVars, resolves, idb, files, syncVars>>

\* directUpload('images/<key>') answered (or failed)
UploadDirectDone(i) ==
    /\ persist[i].up.pc = "directReq"
    /\ \/ \E sfx \in Suffixes :
            LET key == BareKey(sfx) IN
            /\ cloudImages' = cloudImages \cup {key}
            /\ persist' = [persist EXCEPT ![i] =
                   PersistAfterUpload(@, [@.up EXCEPT !.pc = "ok", !.key = key])]
       \/ /\ persist' = [persist EXCEPT ![i] =
                   PersistAfterUpload(@, [@.up EXCEPT !.pc = "failed"])]
          /\ UNCHANGED cloudImages
    /\ UNCHANGED <<detVars, resolves, idb, files, syncVars>>

\* the IndexedDB fallback: store.put({ key, blob })
PersistIdbDone(i) ==
    /\ persist[i].pc = "idbPut"
    /\ \/ \E sfx \in Suffixes :
            /\ idb' = idb \cup {IdbKey(sfx)}
            /\ persist' = [persist EXCEPT ![i].pc = "done", ![i].key = IdbKey(sfx)]
       \/ /\ persist' = [persist EXCEPT ![i].pc = "failed"]
          /\ UNCHANGED idb
    /\ UNCHANGED <<detVars, resolves, files, cloudImages, syncVars>>

\* ------------------------------------------------------------------ getImageObjectURL

ResolveRefs ==
    { BareKey("s1"),
      <<"file://">> \o BareKey("s1"),
      <<"cloud://">> \o BareKey("s1"),
      IdbKey("s1"),
      IdbKey("s2") }

\* getFileImageURL / getPublicImageUrl
FileUrl(key) == [via |-> "proxy", key |-> key]
PublicUrl(key) == [via |-> "public", key |-> key]
BlobUrl(key) == [via |-> "blob", key |-> key]

\* the non-IDB branch of getImageObjectURL
\* (ResolveUrlProxyOnly: a resolver that would not look at the detector.)
ResolveUrlProxyOnly(key, server) ==
    FileUrl(IF StartsWith(key, "file://") THEN Replace(key, "file://") ELSE key)
ResolveUrl(key, server) ==
    LET bareKey == IF StartsWith(key, "file://") THEN Replace(key, "file://") ELSE key
    IN IF server THEN FileUrl(bareKey) ELSE PublicUrl(bareKey)

ResolveStart(j) ==
    /\ resolves[j].pc = "idle"
    /\ \E ref \in ResolveRefs :
        IF StartsWith(ref, "cloud://")
        THEN /\ resolves' = [resolves EXCEPT ![j].pc = "done", ![j].ref = ref,
                                 ![j].url = PublicUrl(Replace(ref, "cloud://"))]
             /\ UNCHANGED <<serverAvailable, statusRequests>>
        ELSE IF ~StartsWith(ref, "idb-")
        THEN IF DetectorImmediate
             THEN /\ serverAvailable' = BoolStr(ImmediateValue)
                  /\ resolves' = [resolves EXCEPT ![j].pc = "done", ![j].ref = ref,
                                      ![j].server = BoolStr(ImmediateValue),
                                      ![j].url = ResolveUrl(ref, ImmediateValue)]
                  /\ UNCHANGED statusRequests
             ELSE /\ statusRequests' = statusRequests + 1
                  /\ resolves' = [resolves EXCEPT ![j].pc = "probing", ![j].ref = ref,
                                      ![j].usedNet = TRUE]
                  /\ UNCHANGED serverAvailable
        ELSE /\ resolves' = [resolves EXCEPT ![j].pc = "idbGet", ![j].ref = ref,
                                 ![j].usedIdb = TRUE]
             /\ UNCHANGED <<serverAvailable, statusRequests>>
    /\ UNCHANGED <<githubHost, lastProbe, persist, idb, files, cloudImages, syncVars>>

ResolveProbeDone(j) ==
    /\ resolves[j].pc = "probing"
    /\ \E out \in ProbeOutcomes :
        LET v == ProbeResult(out) IN
        /\ serverAvailable' = BoolStr(v)
        /\ lastProbe' = [out |-> out, result |-> v]
        /\ resolves' = [resolves EXCEPT ![j].pc = "done",
                            ![j].server = BoolStr(v),
                            ![j].url = ResolveUrl(resolves[j].ref, v)]
    /\ UNCHANGED <<githubHost, statusRequests, persist, idb, files, cloudImages, syncVars>>

\* req.onsuccess of getImageObjectURL: null when the store has no record
\* (IdbUrlAlways: a lookup that would make a URL without a record.)
IdbUrlAlways(key, store) == BlobUrl(key)
IdbUrl(key, store) == IF key \in store THEN BlobUrl(key) ELSE NoUrl

\* store.get(key) succeeded (the record may be missing) or errored
ResolveIdbDone(j) ==
    /\ resolves[j].pc = "idbGet"
    /\ \/ resolves' = [resolves EXCEPT ![j].pc = "done",
                           ![j].url = IdbUrl(resolves[j].ref, idb)]
       \/ resolves' = [resolves EXCEPT ![j].pc = "failed"]
    /\ UNCHANGED <<detVars, persist, idb, files, cloudImages, syncVars>>

\* ------------------------------------------------------------------ GET /api/images/<key>

\* GET requests the proxy takes
MaxGets == 3

GetKeys == {BareKey("s1"), BareKey("s2")}

\* the handler up to its first await: fs.existsSync(filePath) decides between
\* the local file and the download from the object store
GetCall(key, fs) ==
    [key |-> key,
     pc |-> IF key \in fs THEN "served" ELSE "downloading",
     contacted |-> key \notin fs]

\* what fetch(sbUrl) may give: the object, a failure status, or no response
DownloadOutcomes(key, cloud) ==
    (IF key \in cloud THEN {"ok"} ELSE {"notOk"}) \cup {"neterror"}

\* fs.writeFileSync(filePath, bytes) of the downloaded object
\* (CacheFillSkipped: a handler that would serve the bytes without keeping them.)
CacheFillSkipped(fs, key) == fs
CacheFill(fs, key) == fs \cup {key}

\* a GET /api/images/<key> arrives at the proxy
GetStart ==
    /\ Len(gets) < MaxGets
    /\ \E key \in GetKeys : gets' = Append(gets, GetCall(key, files))
    /\ UNCHANGED <<detVars, imgVars, remoteDoc, localItem, quota, channel, properties,
                   load, saves, prevSave, userSaves, sessions, listed, opVars>>

\* the download from the object store settled: the file is written and
\* served, or the answer is 404
GetDownloaded(g) ==
    /\ gets[g].pc = "downloading"
    /\ \E o \in DownloadOutcomes(gets[g].key, cloudImages) :
        IF o = "ok"
        THEN /\ files' = CacheFill(files, gets[g].key)
             /\ gets' = [gets EXCEPT ![g].pc = "served"]
        ELSE /\ gets' = [gets EXCEPT ![g].pc = "notFound"]
             /\ UNCHANGED files
    /\ UNCHANGED <<detVars, persist, resolves, idb, cloudImages, remoteDoc, localItem, quota,
                   channel, properties, load, saves, prevSave, userSaves, sessions, listed,
                   opVars>>

\* ------------------------------------------------------------------ stores

Absent == [kind |-> "absent"]

\* localStorage.setItem(text) succeeds: with room left for everything, or
\* with room left only for a collection that carries no image reference
HasImages(text) == \E i \in 1..Len(text.data) : Len(text.data[i].images) > 0
Fits(text) == quota = "ok" \/ (quota = "tight" /\ ~HasImages(text))

\* ------------------------------------------------------------------ loadApartmentsFromCloud

NullData == [null |-> TRUE, data |-> <<>>]
Data(c) == [null |-> FALSE, data |-> c]

\* what fetch(getPublicDataUrl('data/apartments.json')) may give
FetchFailures == { [kind |-> "neterror"], [kind |-> "response", ok |-> FALSE, body |-> NotJson] }
FetchOutcomes(doc, reachable) ==
    (IF reachable THEN {} ELSE FetchFailures)
    \cup (IF doc = Absent
          THEN { [kind |-> "response", ok |-> FALSE, body |-> NotJson] }
          ELSE { [kind |-> "response", ok |-> TRUE, body |-> doc] })

CloudData(out) ==
    IF out.kind # "response" THEN NullData
    ELSE IF ~out.ok THEN NullData
    ELSE IF out.body.kind = "array" THEN Data(out.body.data)
    ELSE NullData

\* ------------------------------------------------------------------ the load effect

\* The source of the loaded collection: the cloud document when it is a
\* non-empty array, else the parsed local item, else [].  JSON.parse of text
\* that is not JSON throws, and so does iterating a value that is no array:
\* the effect's promise rejects and the effect does nothing more.
\* (ChooseSourceLocalFirst: an effect that would prefer the local item.)
ChooseSourceLocalFirst(cloud, saved) ==
    IF saved # Absent /\ saved.kind = "array"
    THEN [kind |-> "local", data |-> saved.data]
    ELSE IF ~cloud.null /\ Len(cloud.data) > 0
    THEN [kind |-> "cloud", data |-> cloud.data]
    ELSE [kind |-> "empty", data |-> <<>>]
ChooseSource(cloud, saved) ==
    IF ~cloud.null /\ Len(cloud.data) > 0
    THEN [kind |-> "cloud", data |-> cloud.data]
    ELSE IF saved = Absent THEN [kind |-> "empty", data |-> <<>>]
    ELSE IF saved.kind = "array" THEN [kind |-> "local", data |-> saved.data]
    ELSE [kind |-> "crash", data |-> <<>>]

\* prop.title === 'דירה חדשה'  =>  prop.title = ''
MigrateTitles(data) ==
    [i \in 1..Len(data) |->
        IF data[i].title = LegacyTitle THEN [data[i] EXCEPT !.title = ""] ELSE data[i]]
TitlesChanged(data) == \E i \in 1..Len(data) : data[i].title = LegacyTitle

\* the images the cleanup loop looks up, in loop order: those that start
\* with 'idb://'
CleanupPrefix == "idb://"
RECURSIVE PositionsFrom(_, _, _, _)
PositionsFrom(data, p, k, prefix) ==
    IF p > Len(data) THEN <<>>
    ELSE IF k > Len(data[p].images) THEN PositionsFrom(data, p + 1, 1, prefix)
    ELSE (IF StartsWith(data[p].images[k], prefix) THEN << <<p, k>> >> ELSE <<>>)
         \o PositionsFrom(data, p, k + 1, prefix)
Positions(data) == PositionsFrom(data, 1, 1, CleanupPrefix)

ImageAt(data, pos) == data[pos[1]].images[pos[2]]

\* getImageObjectURL(img.replace('idb://', '')): the branch it takes.
\* "sync": cloud:// key; "cached": isServerAvailable answers at once;
\* "probe": isServerAvailable probes; "idb": the IndexedDB lookup
LookupKind(img, immediate) ==
    LET key == Replace(img, "idb://") IN
    IF StartsWith(key, "cloud://") THEN "sync"
    ELSE IF ~StartsWith(key, "idb-") THEN (IF immediate THEN "cached" ELSE "probe")
    ELSE "idb"

\* The cleanup loop from its n-th lookup on, up to the first lookup that
\* waits (for IndexedDB or for the probe) or to the end of the loop.
RECURSIVE Scan(_, _, _, _)
Scan(data, pos, n, immediate) ==
    IF n > Len(pos) THEN [n |-> n, pc |-> "finish", touched |-> FALSE]
    ELSE LET kind == LookupKind(ImageAt(data, pos[n]), immediate) IN
         IF kind = "sync" THEN Scan(data, pos, n + 1, immediate)
         ELSE IF kind = "cached"
         THEN [Scan(data, pos, n + 1, immediate) EXCEPT !.touched = TRUE]
         ELSE IF kind = "probe" THEN [n |-> n, pc |-> "probing", touched |-> FALSE]
         ELSE [n |-> n, pc |-> "idbGet", touched |-> FALSE]

\* prop.images = validImages
RECURSIVE KeepImages(_, _, _, _)
KeepImages(imgs, p, k, drop) ==
    IF k > Len(imgs) THEN <<>>
    ELSE (IF <<p, k>> \in drop THEN <<>> ELSE <<imgs[k]>>)
         \o KeepImages(imgs, p, k + 1, drop)
ApplyDrops(data, drop) ==
    [p \in 1..Len(data) |-> [data[p] EXCEPT !.images = KeepImages(@, p, 1, drop)]]

IdleLoad ==
    [pc |-> "fetching", cloud |-> NullData, source |-> "none", src |-> <<>>,
     data |-> <<>>, n |-> 0, drop |-> {}, changed |-> FALSE, result |-> <<>>,
     wrote |-> FALSE]

\* ------------------------------------------------------------------ refreshStorageUsage

\* getCloudStorageUsage posts its two list requests straight to the object
\* store, with the service key in their headers, whatever the cache holds
Listed(cache) == listed \cup {cache}

\* `if (ok) refreshStorageUsage()` of saveProperties and handleFinalSave; the
\* load effect's own save is not awaited
ListedAfterSave(origin, ok) ==
    IF ok /\ origin # "load" THEN Listed(serverAvailable) ELSE listed

\* ------------------------------------------------------------------ saveApartmentsToCloud

\* saveApartmentsToCloud: the branch taken on the value isServerAvailable gives it
SaveRoute(server) == IF server THEN "proxyReq" ELSE "directReq"

\* The synchronous head of saveApartmentsToCloud(data), called when the
\* cache holds `cache`: the call starts its probe, or posts at once.
SaveCloudStart(data, origin, cache) ==
    [data |-> data, origin |-> origin,
     pc |-> IF cache # Null \/ githubHost THEN SaveRoute(cache = "true") ELSE "probing",
     ok |-> "pending", stored |-> FALSE,
     overlaps |-> {s \in 1..Len(saves) : saves[s].pc # "done"}]

\* _serverAvailable after a call of isServerAvailable that answers at once
CacheAfterImmediate(cache) == IF cache = Null /\ githubHost THEN "false" ELSE cache

\* the probes that count toward statusRequests when a call starts
StartsProbe(cache) == cache = Null /\ ~githubHost

\* what the proxy does with POST /api/supabase/data, as the client sees it:
\* "stored": sbUpload succeeded, 200 {ok:true}; "upstreamFailed": sbUpload
\* returned false, 200 {ok:false}; "proxyError": no response or status 500
ProxyOutcomes == {"stored", "upstreamFailed", "proxyError"}
\* res.ok of the proxy's response
ProxyResponseOk(outcome) == outcome \in {"stored", "upstreamFailed"}

DirectOutcomes == {"stored", "failed"}

\* the object data/apartments.json after an upload with x-upsert: the body of
\* the request, whatever the object held
\* (DocMerged: a store that would keep the listings the body does not name.)
DocMerged(doc, data) ==
    LET old == IF doc = Absent THEN <<>> ELSE doc.data
        kept == SelectSeq(old, LAMBDA p : \A k \in 1..Len(data) : data[k].id # p.id)
    IN Stringify(data \o kept)
DocAfterWrite(doc, data) == Stringify(data)

\* ------------------------------------------------------------------ the load effect, steps

\* The load effect runs on from lookup n of its cleanup loop, with the
\* record `ld` and the cache `cache`: to the next lookup that waits, or to
\* its end (setProperties, localStorage.setItem, saveApartmentsToCloud).
LoadRun(ld, n, cache) ==
    LET immediate == cache # Null \/ githubHost
        sc == Scan(ld.data, Positions(ld.data), n, immediate)
        cache1 == IF sc.touched THEN CacheAfterImmediate(cache) ELSE cache
        result == ApplyDrops(ld.data, ld.drop)
        text == Stringify(result)
    IN IF sc.pc # "finish"
       THEN /\ load' = [ld EXCEPT !.pc = sc.pc, !.n = sc.n]
            /\ serverAvailable' = cache1
            /\ statusRequests' = statusRequests + (IF sc.pc = "probing" THEN 1 ELSE 0)
            /\ UNCHANGED <<properties, localItem, saves, listed>>
       ELSE /\ load' = [ld EXCEPT !.pc = "done", !.n = sc.n, !.result = result,
                                  !.wrote = Fits(text)]
            /\ properties' = result
            /\ localItem' = IF Fits(text) THEN text ELSE localItem
            /\ listed' = Listed(cache1)
            /\ IF ld.changed
               THEN /\ saves' = Append(saves, SaveCloudStart(result, "load", cache1))
                    /\ serverAvailable' = CacheAfterImmediate(cache1)
                    /\ statusRequests' =
                           statusRequests + (IF StartsProbe(cache1) THEN 1 ELSE 0)
               ELSE /\ UNCHANGED saves
                    /\ serverAvailable' = cache1
                    /\ UNCHANGED statusRequests

\* loadApartmentsFromCloud settled
LoadFetched(reachable) ==
    /\ load.pc = "fetching"
    /\ \E out \in FetchOutcomes(remoteDoc, reachable) :
        LET cloud == CloudData(out)
            chosen == ChooseSource(cloud, localItem)
        IN IF chosen.kind = "crash"
           THEN /\ load' = [load EXCEPT !.pc = "crashed", !.cloud = cloud,
                                        !.source = "crash"]
                /\ UNCHANGED <<serverAvailable, statusRequests, properties,
                               localItem, saves, listed>>
           ELSE LoadRun([load EXCEPT !.cloud = cloud, !.source = chosen.kind,
                                     !.src = chosen.data,
                                     !.data = MigrateTitles(chosen.data),
                                     !.changed = TitlesChanged(chosen.data)],
                        1, serverAvailable)
    /\ UNCHANGED <<githubHost, lastProbe, imgVars, remoteDoc, quota, gets, channel, prevSave,
                   userSaves, sessions, opVars>>

\* the IndexedDB lookup of the cleanup loop settled: a record, no record
\* (null), or an error
IdbOutcomes == {"done", "error"}
LoadIdbDone(outcomes) ==
    /\ load.pc = "idbGet"
    /\ \E o \in outcomes :
        LET pos == Positions(load.data)[load.n]
            key == Replace(ImageAt(load.data, pos), "idb://")
            valid == o = "done" /\ key \in idb
        IN LoadRun([load EXCEPT !.drop = IF valid THEN @ ELSE @ \cup {pos},
                                !.changed = IF valid THEN @ ELSE TRUE],
                   load.n + 1, serverAvailable)
    /\ UNCHANGED <<githubHost, lastProbe, imgVars, remoteDoc, quota, gets, channel, prevSave,
                   userSaves, sessions, opVars>>

\* the probe of the cleanup loop's getImageObjectURL settled
LoadProbeDone(outs) ==
    /\ load.pc = "probing"
    /\ \E out \in outs :
        /\ lastProbe' = [out |-> out, result |-> ProbeResult(out)]
        /\ LoadRun(load, load.n + 1, BoolStr(ProbeResult(out)))
    /\ UNCHANGED <<githubHost, imgVars, remoteDoc, quota, gets, channel, prevSave,
                   userSaves, sessions,
                   opVars>>

\* ------------------------------------------------------------------ the key/value endpoint

\* calls of fetchRemoteData
MaxPolls == 2

IdlePoll == [pc |-> "idle", body |-> Absent, landed |-> {}]

\* a sync code is set: the endpoint holds `doc` under it
ChannelOn(doc) ==
    [code |-> TRUE, kv |-> doc, poll |-> IdlePoll, pushes |-> <<>>, landed |-> {},
     polls |-> 0]

\* `if (syncCode) pushDataToRemote(syncCode, ...)` of saveProperties and
\* handleFinalSave, reached when their await of saveApartmentsToCloud call s
\* is over
PushAfterSave(s) ==
    IF channel.code /\ saves[s].origin # "load"
    THEN [channel EXCEPT !.pushes =
             Append(@, [save |-> s, body |-> Stringify(saves[s].data)])]
    ELSE channel

\* fetchRemoteData(code) is called: by the effect on mount, or by the interval
PollStart ==
    /\ channel.code
    /\ channel.poll.pc = "idle"
    /\ channel.polls < MaxPolls
    /\ channel' = [channel EXCEPT !.polls = @ + 1,
                       !.poll = [pc |-> "sent", body |-> Absent, landed |-> channel.landed]]
    /\ UNCHANGED <<detVars, imgVars, remoteDoc, localItem, quota, gets, properties, load,
                   saves, prevSave, userSaves, sessions, listed, opVars>>

\* the endpoint answers the GET with what it holds then, or the request fails
PollServed ==
    /\ channel.code
    /\ channel.poll.pc = "sent"
    /\ \/ channel' = [channel EXCEPT !.poll.pc = "answered", !.poll.body = channel.kv]
       \/ channel' = [channel EXCEPT !.poll.pc = "answered", !.poll.body = Absent]
    /\ UNCHANGED <<detVars, imgVars, remoteDoc, localItem, quota, gets, properties, load,
                   saves, prevSave, userSaves, sessions, listed, opVars>>

\* the collection fetchRemoteData takes from the response: none unless the
\* body is an array
PollAdopts(body) == body # Absent /\ body.kind = "array"

\* fetchRemoteData resumes with the response: setProperties(data) and
\* localStorage.setItem, inside its try
PollDone ==
    /\ channel.code
    /\ channel.poll.pc = "answered"
    /\ channel' = [channel EXCEPT !.poll = IdlePoll]
    /\ IF PollAdopts(channel.poll.body)
       THEN /\ properties' = channel.poll.body.data
            /\ localItem' = IF Fits(Stringify(channel.poll.body.data))
                            THEN Stringify(channel.poll.body.data) ELSE localItem
       ELSE UNCHANGED <<properties, localItem>>
    /\ UNCHANGED <<detVars, imgVars, remoteDoc, quota, gets, load, saves, prevSave,
                   userSaves, sessions, listed, opVars>>

\* the POST of pushDataToRemote settled: the endpoint holds the body, or the
\* request failed
PushDone(k) ==
    /\ channel.code
    /\ k \in 1..Len(channel.pushes)
    /\ LET rest == SubSeq(channel.pushes, 1, k - 1)
                    \o SubSeq(channel.pushes, k + 1, Len(channel.pushes))
       IN \/ channel' = [channel EXCEPT !.pushes = rest, !.kv = channel.pushes[k].body,
                                        !.landed = @ \cup {channel.pushes[k].save}]
          \/ channel' = [channel EXCEPT !.pushes = rest]
    /\ UNCHANGED <<detVars, imgVars, remoteDoc, localItem, quota, gets, properties, load,
                   saves, prevSave, userSaves, sessions, listed, opVars>>

\* ------------------------------------------------------------------ saveProperties

\* newProps.map(p => ({ ...p, images: [] }))
Fallback(c) == [i \in 1..Len(c) |-> Spread(c[i], [images |-> <<>>])]

\* the text left in localStorage by the two setItem attempts of saveProperties
\* (LocalWriteSkipped: a saveProperties that would not write before it posts.)
LocalWriteSkipped(newProps) == localItem
LocalAfterSave(newProps) ==
    IF Fits(Stringify(newProps)) THEN Stringify(newProps)
    ELSE IF Fits(Stringify(Fallback(newProps))) THEN Stringify(Fallback(newProps))
    ELSE localItem

\* n calls of isServerAvailable are made in one step, none of them settled
AskDetector(n) ==
    /\ serverAvailable' = IF n > 0 THEN CacheAfterImmediate(serverAvailable)
                          ELSE serverAvailable
    /\ statusRequests' = statusRequests + (IF StartsProbe(serverAvailable) THEN n ELSE 0)

\* saveProperties(newProps), in a step that asks the detector n more times
SavePropertiesThen(newProps, n) ==
    /\ properties' = newProps
    /\ localItem' = LocalAfterSave(newProps)
    /\ saves' = Append(saves, SaveCloudStart(newProps, "saveProperties", serverAvailable))
    /\ AskDetector(n + 1)

SaveProperties(newProps) == SavePropertiesThen(newProps, 0)

\* the probe of a saveApartmentsToCloud call settled
SaveProbeDone(s, outs) ==
    /\ saves[s].pc = "probing"
    /\ \E out \in outs :
        /\ lastProbe' = [out |-> out, result |-> ProbeResult(out)]
        /\ serverAvailable' = BoolStr(ProbeResult(out))
        /\ saves' = [saves EXCEPT ![s].pc = SaveRoute(ProbeResult(out))]
    /\ UNCHANGED <<githubHost, statusRequests, imgVars, remoteDoc, localItem,
                   quota, gets, channel,
                   properties, load, prevSave, userSaves, sessions, listed, opVars>>

\* POST /api/supabase/data settled
SaveProxyDone(s, outcomes) ==
    /\ saves[s].pc = "proxyReq"
    /\ \E o \in outcomes :
        /\ remoteDoc' = IF o = "stored" THEN DocAfterWrite(remoteDoc, saves[s].data)
                        ELSE remoteDoc
        /\ saves' = [saves EXCEPT ![s].pc = "done",
                                  ![s].ok = BoolStr(ProxyResponseOk(o)),
                                  ![s].stored = (o = "stored")]
        /\ listed' = ListedAfterSave(saves[s].origin, ProxyResponseOk(o))
    /\ channel' = PushAfterSave(s)
    /\ UNCHANGED <<detVars, imgVars, localItem, quota, gets, properties, load, prevSave,
                   userSaves, sessions, opVars>>

\* directUpload('data/apartments.json') settled
SaveDirectDone(s, outcomes) ==
    /\ saves[s].pc = "directReq"
    /\ \E o \in outcomes :
        /\ remoteDoc' = IF o = "stored" THEN DocAfterWrite(remoteDoc, saves[s].data)
                        ELSE remoteDoc
        /\ saves' = [saves EXCEPT ![s].pc = "done",
                                  ![s].ok = BoolStr(o = "stored"),
                                  ![s].stored = (o = "stored")]
        /\ listed' = ListedAfterSave(saves[s].origin, o = "stored")
    /\ channel' = PushAfterSave(s)
    /\ UNCHANGED <<detVars, imgVars, localItem, quota, gets, properties, load, prevSave,
                   userSaves, sessions, opVars>>

\* ------------------------------------------------------------------ the cards

Stars == {"r1"}

\* handleRatingClick
RatingUpdate(p, star) ==
    [rating |-> IF Field(p, "rating") = star THEN Undefined ELSE star]

\* handleSetAsPrimary
PrimaryUpdate(p, k) ==
    [images |-> <<p.images[k]>> \o SubSeq(p.images, 1, k - 1)
                    \o SubSeq(p.images, k + 1, Len(p.images))]

CardUpdates(p) ==
    {RatingUpdate(p, star) : star \in Stars}
    \cup {PrimaryUpdate(p, k) : k \in 2..Len(p.images)}

\* updateProperty(id, updates)
UpdateProperty ==
    /\ userSaves < MaxUserSaves
    /\ userSaves' = userSaves + 1
    /\ \E i \in 1..Len(properties) : \E u \in CardUpdates(properties[i]) :
        SaveProperties([j \in 1..Len(properties) |->
            IF properties[j].id = properties[i].id
            THEN Spread(properties[j], u) ELSE properties[j]])
    /\ UNCHANGED <<githubHost, lastProbe, imgVars, remoteDoc,
                   quota, gets, channel, load, prevSave,
                   sessions, listed, opVars>>

\* ------------------------------------------------------------------ the page

NoSave == [some |-> FALSE, data |-> <<>>, origin |-> "none", ok |-> "pending"]

Quiescent ==
    /\ load.pc \in {"done", "crashed"}
    /\ \A s \in 1..Len(saves) : saves[s].pc = "done"

\* the user reloads the page: a new process, and the load effect starts
Reload ==
    /\ sessions < MaxReloads
    /\ Quiescent
    /\ sessions' = sessions + 1
    /\ properties' = <<>>
    /\ load' = IdleLoad
    /\ serverAvailable' = Null
    /\ statusRequests' = 0
    /\ lastProbe' = [out |-> NoProbe, result |-> FALSE]
    /\ saves' = <<>>
    /\ prevSave' = IF saves = <<>> THEN NoSave
                   ELSE [some |-> TRUE, data |-> saves[Len(saves)].data,
                         origin |-> saves[Len(saves)].origin,
                         ok |-> saves[Len(saves)].ok]
    /\ listed' = {}
    /\ UNCHANGED <<githubHost, imgVars, remoteDoc, localItem, quota, gets, channel,
                   userSaves, opVars>>

\* ------------------------------------------------------------------ deleteImageKey

\* the references deleteProperty and handleFinalSave never hand to deleteImageKey
Inline(img) == StartsWith(img, "data:") \/ StartsWith(img, "blob:")

\* cleanKey
CleanKey(img) == IF StartsWith(img, "idb://") THEN Replace(img, "idb://") ELSE img

\* deleteImageFromCloud up to its first request: the calls that ask the detector
AsksDetector(key) == StartsWith(key, "cloud://")
CloudDeleteStart(cache) ==
    IF cache # Null \/ githubHost THEN SaveRoute(cache = "true") ELSE "probing"

\* The synchronous head of deleteImageKey(key), called while the cache holds
\* `cache`; `from` names the caller (the handler, and the listing with its
\* images), `rest` are the keys the caller's loop has yet to delete, `bg` is
\* the deleteImageFromCloud that is not awaited.
DeleteCall(key, from, rest, cache) ==
    [key |-> key, from |-> from, rest |-> rest, bg |-> "none",
     pc |-> IF AsksDetector(key) THEN CloudDeleteStart(cache)
            ELSE IF StartsWith(key, "idb-") THEN "idbDel"
            ELSE "fileReq"]

\* deleteImageKey call d has settled with `end`: the try/catch of
\* deleteProperty's loop goes on to the next key, resolved or rejected
\* (SettleOrThrow: a loop that a rejection would leave.)
SettleOrThrow(ds, d, end, cache) ==
    LET ds1 == [ds EXCEPT ![d].pc = end]
    IN IF ds[d].rest # <<>> /\ end # "failed"
       THEN Append(ds1, DeleteCall(Head(ds[d].rest), ds[d].from, Tail(ds[d].rest), cache))
       ELSE ds1
Settle(ds, d, end, cache) ==
    LET ds1 == [ds EXCEPT ![d].pc = end]
    IN IF ds[d].rest # <<>>
       THEN Append(ds1, DeleteCall(Head(ds[d].rest), ds[d].from, Tail(ds[d].rest), cache))
       ELSE ds1

NextAsks(d) == IF deletes[d].rest # <<>> /\ AsksDetector(Head(deletes[d].rest)) THEN 1 ELSE 0

\* DELETE /api/images/<key> settled: the proxy removed the file, another
\* host answered, or the request failed
FileDeleteOutcomes == {"deleted", "answered", "neterror"}
DeleteFileDone(d) ==
    /\ deletes[d].pc = "fileReq"
    /\ \E o \in FileDeleteOutcomes :
        LET alsoCloud == o # "neterror" /\ ~StartsWith(deletes[d].key, "file://")
            cache == IF alsoCloud THEN CacheAfterImmediate(serverAvailable)
                     ELSE serverAvailable
            end == IF o = "neterror" THEN "failed" ELSE "done"
        IN /\ files' = IF o = "deleted" THEN files \ {Replace(deletes[d].key, "file://")}
                       ELSE files
           /\ deletes' = Settle([deletes EXCEPT ![d].bg =
                                     IF alsoCloud THEN CloudDeleteStart(serverAvailable)
                                     ELSE "none"],
                                d, end, cache)
           /\ AskDetector((IF alsoCloud THEN 1 ELSE 0) + NextAsks(d))
    /\ UNCHANGED <<githubHost, lastProbe, persist, resolves, idb, cloudImages, remoteDoc,
                   localItem,
                   quota, gets, channel, properties, load, saves, prevSave, userSaves,
                   sessions, listed, edit>>

\* the probe of a deleteImageFromCloud settled
DeleteProbeDone(d, outs) ==
    /\ "probing" \in {deletes[d].pc, deletes[d].bg}
    /\ \E out \in outs :
        /\ lastProbe' = [out |-> out, result |-> ProbeResult(out)]
        /\ serverAvailable' = BoolStr(ProbeResult(out))
        /\ deletes' = IF deletes[d].pc = "probing"
                      THEN [deletes EXCEPT ![d].pc = SaveRoute(ProbeResult(out))]
                      ELSE [deletes EXCEPT ![d].bg = SaveRoute(ProbeResult(out))]
    /\ UNCHANGED <<githubHost, statusRequests, imgVars, remoteDoc, localItem,
                   quota, gets, channel,
                   properties, load, saves, prevSave, userSaves, sessions, listed, edit>>

\* DELETE /api/supabase/image/<key> or directDelete('images/<key>') settled:
\* the object was removed, or not; only the request to the proxy can reject
CloudDeleteOutcomes(route) ==
    IF route = "proxyReq" THEN {"deleted", "answered", "neterror"}
    ELSE {"deleted", "answered"}
DeleteCloudDone(d) ==
    /\ \/ deletes[d].pc \in {"proxyReq", "directReq"}
       \/ deletes[d].bg \in {"proxyReq", "directReq"}
    /\ LET awaited == deletes[d].pc \in {"proxyReq", "directReq"}
           route == IF awaited THEN deletes[d].pc ELSE deletes[d].bg
       IN \E o \in CloudDeleteOutcomes(route) :
           /\ cloudImages' = IF o = "deleted"
                             THEN cloudImages \ {Replace(deletes[d].key, "cloud://")}
                             ELSE cloudImages
           /\ IF awaited
              THEN /\ deletes' = Settle(deletes, d,
                                        IF o = "neterror" THEN "failed" ELSE "done",
                                        serverAvailable)
                   /\ AskDetector(NextAsks(d))
              ELSE /\ deletes' = [deletes EXCEPT ![d].bg = "settled"]
                   /\ AskDetector(0)
    /\ UNCHANGED <<githubHost, lastProbe, persist, resolves, idb, files, remoteDoc,
                   localItem,
                   quota, gets, channel, properties, load, saves, prevSave, userSaves,
                   sessions, listed, edit>>

\* store.delete(key) of the IndexedDB branch: tx.oncomplete or tx.onerror
DeleteIdbDone(d) ==
    /\ deletes[d].pc = "idbDel"
    /\ \E o \in IdbOutcomes :
        /\ idb' = IF o = "done" THEN idb \ {deletes[d].key} ELSE idb
        /\ deletes' = Settle(deletes, d, IF o = "done" THEN "done" ELSE "failed",
                             serverAvailable)
        /\ AskDetector(NextAsks(d))
    /\ UNCHANGED <<githubHost, lastProbe, persist, resolves, files, cloudImages, remoteDoc,
                   localItem,
                   quota, gets, channel, properties, load, saves, prevSave, userSaves,
                   sessions, listed, edit>>

\* ------------------------------------------------------------------ deleteProperty

\* the keys deleteProperty's loop hands to deleteImageKey, in order
\* (CleanKeysAll: a loop that would not skip the inline payloads.)
CleanKeysAll(imgs) == [k \in 1..Len(imgs) |-> CleanKey(imgs[k])]
CleanKeys(imgs) ==
    LET kept == SelectSeq(imgs, LAMBDA img : ~Inline(img))
    IN [k \in 1..Len(kept) |-> CleanKey(kept[k])]

\* deleteProperty(id): saveProperties(updated), then the loop up to its
\* first await
DeleteProperty ==
    /\ userSaves < MaxUserSaves
    /\ userSaves' = userSaves + 1
    /\ \E i \in 1..Len(properties) :
        LET updated == SelectSeq(properties, LAMBDA p : p.id # properties[i].id)
            keys == CleanKeys(properties[i].images)
        IN IF keys = <<>>
           THEN /\ SaveProperties(updated)
                /\ UNCHANGED deletes
           ELSE /\ SavePropertiesThen(updated, IF AsksDetector(Head(keys)) THEN 1 ELSE 0)
                /\ deletes' = Append(deletes,
                       DeleteCall(Head(keys),
                                  [origin |-> "deleteProperty", id |-> properties[i].id,
                                   images |-> properties[i].images],
                                  Tail(keys), CacheAfterImmediate(serverAvailable)))
    /\ UNCHANGED <<githubHost, lastProbe, imgVars, remoteDoc,
                   quota, gets, channel, load, prevSave,
                   sessions, listed, edit>>

\* ------------------------------------------------------------------ handleFinalSave

DataUrl == <<"data:", "image/png">>
NewId == "n"

\* imageRefs of the form: for an edit the listing's references, all kept or
\* all removed, then the picture added, as a data URL
FormImages(old) ==
    {kept \o added : kept \in {old, <<>>}, added \in {<<>>, <<DataUrl>>}}

\* the upload loop up to its next inline reference: a stored reference is kept
RECURSIVE UploadLoop(_)
UploadLoop(e) ==
    IF e.k > Len(e.refs) \/ Inline(e.refs[e.k]) THEN e
    ELSE UploadLoop([e EXCEPT !.k = @ + 1, !.final = Append(@, e.refs[e.k])])

\* (FinalRefsAsTyped: a loop that would keep the references of the form.)
FinalRefsAsTyped(e) == e.refs
FinalRefs(e) == e.final

NewProp(e) ==
    [id |-> e.id, title |-> e.title, rating |-> e.rating, images |-> FinalRefs(e)]

UpdatedProps(e) ==
    IF e.editing
    THEN [j \in 1..Len(e.snapshot) |->
             IF e.snapshot[j].id = e.id THEN Spread(e.snapshot[j], NewProp(e))
             ELSE e.snapshot[j]]
    ELSE <<NewProp(e)>> \o e.snapshot

\* toDelete, as clean keys
ToDelete(e) ==
    LET found == SelectSeq(e.snapshot, LAMBDA p : p.id = e.id)
        oldImgs == IF e.editing /\ found # <<>> THEN found[1].images ELSE <<>>
        gone == SelectSeq(oldImgs, LAMBDA img :
                    ~(\E k \in 1..Len(FinalRefs(e)) : FinalRefs(e)[k] = img) /\ ~Inline(img))
    IN [k \in 1..Len(gone) |-> CleanKey(gone[k])]

\* the text left in localStorage by the one setItem attempt of handleFinalSave
LocalAfterFinalSave(updated) ==
    IF Fits(Stringify(updated)) THEN Stringify(updated) ELSE localItem

\* handleFinalSave runs on from reference e.k of its upload loop: to the
\* saveImageDataUrl call that waits, or through steps 3 to 7 to the await of
\* saveApartmentsToCloud
EditRun(e0) ==
    LET e == UploadLoop(e0) IN
    /\ IF e.k <= Len(e.refs)
       THEN \E i \in PersistIds :
               /\ persist[i].pc = "idle"
               /\ \A j \in PersistIds : j < i => persist[j].pc # "idle"
               /\ PersistCall(i)
               /\ edit' = [e EXCEPT !.pc = "uploading", !.call = i]
               /\ UNCHANGED <<properties, localItem, saves, deletes>>
       ELSE LET updated == UpdatedProps(e)
                keys == ToDelete(e)
                from == [origin |-> "handleFinalSave", id |-> e.id, images |-> <<>>]
                asks == Cardinality({k \in 1..Len(keys) : AsksDetector(keys[k])})
            IN /\ deletes' = deletes \o [k \in 1..Len(keys) |->
                                 DeleteCall(keys[k], from, <<>>, serverAvailable)]
               /\ properties' = updated
               /\ localItem' = LocalAfterFinalSave(updated)
               /\ saves' = Append(saves,
                      SaveCloudStart(updated, "handleFinalSave", serverAvailable))
               /\ AskDetector(asks + 1)
               /\ edit' = [e EXCEPT !.pc = "saving"]
               /\ UNCHANGED persist
    /\ UNCHANGED <<githubHost, lastProbe, resolves, idb, files, cloudImages, remoteDoc,
                   quota, gets, channel, load, prevSave, userSaves, sessions, listed>>

\* the user submits the form, for a new listing or for one of the collection
EditStart ==
    /\ edit.pc = "idle"
    /\ \/ \E refs \in FormImages(<<>>) :
            edit' = [pc |-> "geocoding", editing |-> FALSE, id |-> NewId,
                     title |-> "Flat N", rating |-> Undefined, snapshot |-> properties,
                     refs |-> refs, k |-> 1, final |-> <<>>, call |-> 0]
       \/ \E i \in 1..Len(properties) : \E refs \in FormImages(properties[i].images) :
            edit' = [pc |-> "geocoding", editing |-> TRUE, id |-> properties[i].id,
                     title |-> properties[i].title,
                     rating |-> Field(properties[i], "rating"),
                     snapshot |-> properties, refs |-> refs, k |-> 1, final |-> <<>>,
                     call |-> 0]
    /\ UNCHANGED <<detVars, imgVars, remoteDoc, localItem, quota, gets, channel,
                   properties, load, saves,
                   prevSave, userSaves, sessions, listed, deletes>>

\* geocodeAddress settled
EditGeocoded ==
    /\ edit.pc = "geocoding"
    /\ EditRun(edit)

\* the saveImageDataUrl call of the upload loop returned a key or threw; the
\* loop's continuation is a step of its own, which adds interleavings and
\* removes none
EditUploaded ==
    /\ edit.pc = "uploading"
    /\ persist[edit.call].pc \in {"done", "failed"}
    /\ EditRun([edit EXCEPT !.k = @ + 1,
                            !.final = IF persist[edit.call].pc = "done"
                                         /\ persist[edit.call].key # NoKey
                                      THEN Append(@, persist[edit.call].key) ELSE @])

\* ------------------------------------------------------------------ initial stores

IdleEdit == [pc |-> "idle"]

\* no sync code is set: syncCode is '', nothing is polled and nothing pushed
ChannelOff == [code |-> FALSE]

ListingA == [id |-> "a", title |-> "Flat A", images |-> <<IdbRef("s1"), IdbKey("s2")>>]
ListingB == [id |-> "b", title |-> LegacyTitle, images |-> <<>>, rating |-> "r1"]
ListingC == [id |-> "a", title |-> "Flat A", images |-> <<OddRef, IdbRef("s2")>>]

InitRemote == { Absent, JsonArray(<<>>), JsonArray(<<ListingB, ListingA>>) }
InitLocal == { Absent, JsonArray(<<ListingC>>) }

\* the page before its load effect has run
InitPage ==
    /\ properties = <<>>
    /\ load = IdleLoad
    /\ saves = <<>>
    /\ prevSave = NoSave
    /\ userSaves = 0
    /\ sessions = 0
    /\ listed = {}
    /\ edit = IdleEdit
    /\ deletes = <<>>

InitSync ==
    /\ remoteDoc \in InitRemote
    /\ localItem \in InitLocal
    /\ quota \in {"ok", "tight", "full"}
    /\ InitPage
    /\ channel = ChannelOff

\* ------------------------------------------------------------------ SpecDetector

NextDetector ==
    \/ \E i \in PersistIds : PersistStart(i)
    \/ \E i \in PersistIds : PersistProbeDone(i)
    \/ \E i \in PersistIds : PersistFileDone(i)
    \/ \E i \in PersistIds : UploadProxyDone(i)
    \/ \E i \in PersistIds : UploadDirectDone(i)
    \/ \E i \in PersistIds : PersistIdbDone(i)

NextResolve ==
    \/ \E j \in ResolveIds : ResolveStart(j)
    \/ \E j \in ResolveIds : ResolveProbeDone(j)
    \/ \E j \in ResolveIds : ResolveIdbDone(j)

InitDet ==
    /\ InitDetector
    /\ InitImages
    /\ idb = {}
    /\ InitSync
    /\ remoteDoc = Absent
    /\ localItem = Absent
    /\ quota = "ok"

SpecDetector == InitDet /\ [][NextDetector]_vars

\* the getImageObjectURL calls alone, over an IndexedDB store that holds any
\* of the keys looked up
InitResolve ==
    /\ InitDetector
    /\ InitImages
    /\ idb \in SUBSET {IdbKey("s1"), IdbKey("s2")}
    /\ InitSync
    /\ remoteDoc = Absent
    /\ localItem = Absent
    /\ quota = "ok"

SpecResolve == InitResolve /\ [][NextResolve]_vars

\* ------------------------------------------------------------------ Spec

\* the probe outcomes that tell the synchronisation engine's runs apart
SyncProbeOutcomes ==
    { [kind |-> "timeout"],
      [kind |-> "response", ok |-> TRUE, ct |-> JsonType] }

Next ==
    \/ LoadFetched(FALSE)
    \/ LoadIdbDone(IdbOutcomes)
    \/ LoadProbeDone(SyncProbeOutcomes)
    \/ UpdateProperty
    \/ \E s \in 1..Len(saves) : SaveProbeDone(s, SyncProbeOutcomes)
    \/ \E s \in 1..Len(saves) : SaveProxyDone(s, ProxyOutcomes)
    \/ \E s \in 1..Len(saves) : SaveDirectDone(s, DirectOutcomes)
    \/ Reload

Init ==
    /\ InitDetector
    /\ InitImages
    /\ idb \in {{}, {IdbKey("s1")}}
    /\ InitSync

Spec == Init /\ [][Next]_vars

\* localStorage with room for everything
InitAmple == Init /\ quota = "ok"
SpecAmple == InitAmple /\ [][Next]_vars

\* a first visit with little room in localStorage: the remote document holds
\* the listings, the local cache nothing
InitTight ==
    /\ Init
    /\ remoteDoc = JsonArray(<<ListingB, ListingA>>)
    /\ localItem = Absent
    /\ quota = "tight"

\* the steps of Next these stores allow: no reference of theirs makes the
\* cleanup ask the detector
NextTight ==
    \/ LoadFetched(FALSE)
    \/ LoadIdbDone(IdbOutcomes)
    \/ UpdateProperty
    \/ \E s \in 1..Len(saves) : SaveProbeDone(s, SyncProbeOutcomes)
    \/ \E s \in 1..Len(saves) : SaveProxyDone(s, ProxyOutcomes)
    \/ \E s \in 1..Len(saves) : SaveDirectDone(s, DirectOutcomes)
    \/ Reload

SpecTight == InitTight /\ [][NextTight]_vars

\* ------------------------------------------------------------------ SpecLoad

\* The page is loaded and reloaded, and nobody edits: the load effect and the
\* re-save it issues, over every content of the three stores.
NextLoad ==
    \/ LoadFetched(FALSE)
    \/ LoadIdbDone(IdbOutcomes)
    \/ LoadProbeDone(SyncProbeOutcomes)
    \/ \E s \in 1..Len(saves) : SaveProbeDone(s, SyncProbeOutcomes)
    \/ \E s \in 1..Len(saves) : SaveProxyDone(s, ProxyOutcomes)
    \/ \E s \in 1..Len(saves) : SaveDirectDone(s, DirectOutcomes)
    \/ Reload

InitLoad ==
    /\ InitDetector
    /\ InitImages
    /\ idb \in SUBSET {IdbKey("s1"), IdbKey("s2")}
    /\ InitSync

SpecLoad == InitLoad /\ [][NextLoad]_vars

\* ------------------------------------------------------------------ SpecLoadAny

\* The load effect over stores that hold any text: the document of the
\* bucket and the item of localStorage are written by every version of the
\* application and by whatever else has the bucket's key or shares the origin.
InitLoadAny ==
    /\ InitDetector
    /\ InitImages
    /\ idb = {IdbKey("s1")}
    /\ InitPage
    /\ channel = ChannelOff
    /\ remoteDoc \in InitRemote \cup {NotJson, JsonObject}
    /\ localItem \in InitLocal \cup {NotJson, JsonObject}
    /\ quota \in {"ok", "full"}

SpecLoadAny == InitLoadAny /\ [][NextLoad]_vars

\* ------------------------------------------------------------------ SpecBridge

\* the proxy's image directory and the object store, in any state uploads and
\* deletions may have left them
InitBridge ==
    /\ InitDetector
    /\ persist = [i \in PersistIds |-> IdlePersist]
    /\ resolves = [j \in ResolveIds |-> IdleResolve]
    /\ idb = {}
    /\ files \in SUBSET GetKeys
    /\ cloudImages \in SUBSET GetKeys
    /\ gets = <<>>
    /\ InitPage
    /\ channel = ChannelOff
    /\ remoteDoc = Absent
    /\ localItem = Absent
    /\ quota = "ok"

NextBridge ==
    \/ GetStart
    \/ \E g \in 1..Len(gets) : GetDownloaded(g)

SpecBridge == InitBridge /\ [][NextBridge]_vars

\* ------------------------------------------------------------------ SpecDelete

BlobUrl0 == <<"blob:", "u1">>

\* a listing of a document written over the application's versions: every
\* kind of reference, inline payloads among them
ListingMixed ==
    [id |-> "m", title |-> "Flat M",
     images |-> <<BareKey("s1"), DataUrl, <<"cloud://">> \o BareKey("s2"),
                  IdbRef("s1"), <<"file://">> \o BareKey("s2"), BlobUrl0, IdbKey("s2")>>]
ListingInline == [id |-> "i", title |-> "Flat I", images |-> <<DataUrl>>]

InitDelete ==
    /\ InitDetector
    /\ InitImages
    /\ idb = {IdbKey("s1"), IdbKey("s2")}
    /\ InitPage
    /\ channel = ChannelOff
    /\ remoteDoc = JsonArray(<<ListingMixed, ListingInline>>)
    /\ localItem = Absent
    /\ quota = "ok"

\* The page is loaded and listings are deleted.
NextDelete ==
    \/ LoadFetched(TRUE)
    \/ LoadIdbDone({"done"})
    \/ DeleteProperty
    \/ \E d \in 1..Len(deletes) : DeleteFileDone(d)
    \/ \E d \in 1..Len(deletes) : DeleteProbeDone(d, SyncProbeOutcomes)
    \/ \E d \in 1..Len(deletes) : DeleteCloudDone(d)
    \/ \E d \in 1..Len(deletes) : DeleteIdbDone(d)
    \/ \E s \in 1..Len(saves) : SaveProbeDone(s, SyncProbeOutcomes)
    \/ \E s \in 1..Len(saves) : SaveProxyDone(s, {"stored", "proxyError"})
    \/ \E s \in 1..Len(saves) : SaveDirectDone(s, DirectOutcomes)

SpecDelete == InitDelete /\ [][NextDelete]_vars

\* ------------------------------------------------------------------ SpecEdit

ListingStored ==
    [id |-> "e", title |-> "Flat E",
     images |-> <<BareKey("s1"), <<"cloud://">> \o BareKey("s2")>>]

InitEdit ==
    /\ InitDetector
    /\ InitImages
    /\ idb = {}
    /\ InitPage
    /\ channel = ChannelOff
    /\ remoteDoc \in {Absent, JsonArray(<<ListingStored>>)}
    /\ localItem = Absent
    /\ quota \in {"ok", "tight", "full"}

\* the requests of the handlers called so far have all settled
UserIdle ==
    /\ edit.pc \in {"idle", "saving"}
    /\ \A s \in 1..Len(saves) : saves[s].pc = "done"
    /\ \A d \in 1..Len(deletes) :
          deletes[d].pc \in {"done", "failed"} /\ deletes[d].bg \in {"none", "settled"}
    /\ \A i \in PersistIds :
          /\ persist[i].pc \in {"idle", "done", "failed"}
          /\ persist[i].up.pc \notin {"proxyReq", "directReq"}

\* The page is loaded, a listing is added or edited through the form, and a
\* card is used to rate, reorder or delete; the user starts an operation
\* when the requests of the one before have settled.
NextEdit ==
    \/ LoadFetched(TRUE)
    \/ UserIdle /\ EditStart
    \/ EditGeocoded
    \/ EditUploaded
    \/ \E i \in PersistIds : PersistProbed(i, SyncProbeOutcomes)
    \/ \E i \in PersistIds : PersistFileDone(i)
    \/ \E i \in PersistIds : UploadProxyDone(i)
    \/ \E i \in PersistIds : UploadDirectDone(i)
    \/ \E i \in PersistIds : PersistIdbDone(i)
    \/ UserIdle /\ userSaves < MaxCardOps /\ UpdateProperty
    \/ UserIdle /\ userSaves < MaxCardOps /\ DeleteProperty
    \/ \E d \in 1..Len(deletes) : DeleteFileDone(d)
    \/ \E d \in 1..Len(deletes) : DeleteProbeDone(d, SyncProbeOutcomes)
    \/ \E d \in 1..Len(deletes) : DeleteCloudDone(d)
    \/ \E s \in 1..Len(saves) : SaveProbeDone(s, SyncProbeOutcomes)
    \/ \E s \in 1..Len(saves) : SaveProxyDone(s, {"stored", "proxyError"})
    \/ \E s \in 1..Len(saves) : SaveDirectDone(s, DirectOutcomes)

SpecEdit == InitEdit /\ [][NextEdit]_vars

\* ------------------------------------------------------------------ SpecOverlap

InitOverlap ==
    /\ InitEdit
    /\ remoteDoc = JsonArray(<<ListingStored>>)
    /\ quota = "ok"

\* handleFinalSave is waiting for geocodeAddress or for saveImageDataUrl
EditSuspended == edit.pc \in {"geocoding", "uploading"}

\* The form is submitted, and while handleFinalSave waits a card's handler
\* runs: the timer of handleNotesChange fires, or a star is clicked.
NextOverlap ==
    \/ LoadFetched(TRUE)
    \/ UserIdle /\ load.pc = "done" /\ EditStart
    \/ EditGeocoded
    \/ EditUploaded
    \/ \E i \in PersistIds : PersistProbed(i, SyncProbeOutcomes)
    \/ \E i \in PersistIds : PersistFileDone(i)
    \/ \E i \in PersistIds : UploadProxyDone(i)
    \/ \E i \in PersistIds : UploadDirectDone(i)
    \/ \E i \in PersistIds : PersistIdbDone(i)
    \/ EditSuspended /\ userSaves < MaxCardOps /\ UpdateProperty
    \/ \E d \in 1..Len(deletes) : DeleteFileDone(d)
    \/ \E d \in 1..Len(deletes) : DeleteProbeDone(d, SyncProbeOutcomes)
    \/ \E d \in 1..Len(deletes) : DeleteCloudDone(d)
    \/ \E s \in 1..Len(saves) : SaveProbeDone(s, SyncProbeOutcomes)
    \/ \E s \in 1..Len(saves) : SaveProxyDone(s, {"stored", "proxyError"})
    \/ \E s \in 1..Len(saves) : SaveDirectDone(s, DirectOutcomes)

SpecOverlap == InitOverlap /\ [][NextOverlap]_vars

\* ------------------------------------------------------------------ SpecChannel

\* a sync code is set, and the endpoint holds what the remote document holds
InitChannel ==
    /\ InitDetector
    /\ InitImages
    /\ idb = {}
    /\ InitPage
    /\ remoteDoc = JsonArray(<<ListingStored>>)
    /\ channel \in {ChannelOn(remoteDoc), ChannelOn(NotJson)}
    /\ localItem = Absent
    /\ quota \in {"ok", "full"}

\* The page is loaded, cards are rated and reordered, and the interval polls
\* the endpoint.
NextChannel ==
    \/ LoadFetched(TRUE)
    \/ load.pc = "done" /\ UpdateProperty
    \/ \E s \in 1..Len(saves) : SaveProbeDone(s, SyncProbeOutcomes)
    \/ \E s \in 1..Len(saves) : SaveProxyDone(s, {"stored", "proxyError"})
    \/ \E s \in 1..Len(saves) : SaveDirectDone(s, DirectOutcomes)
    \/ PollStart
    \/ PollServed
    \/ PollDone
    \/ \E k \in 1..Len(channel.pushes) : PushDone(k)

SpecChannel == InitChannel /\ [][NextChannel]_vars

\* ------------------------------------------------------------------ SpecRoundTrip

\* the collections handed to saveProperties
ListingPlain == [id |-> "a", title |-> "Flat A", images |-> <<BareKey("s1")>>]
ListingUnrated ==
    [id |-> "a", title |-> "Flat A", images |-> <<BareKey("s1")>>, rating |-> Undefined]
ListingDefault == [id |-> "b", title |-> LegacyTitle, images |-> <<>>, rating |-> "r1"]
ListingLocalRef == [id |-> "c", title |-> "Flat C", images |-> <<IdbRef("s2"), BareKey("s2")>>]

Collections ==
    { <<>>,
      <<ListingPlain>>,
      <<ListingUnrated>>,
      <<ListingDefault, ListingPlain>>,
      <<ListingLocalRef>> }

\* saveProperties(newProps), called from any handler once the page has loaded
SaveCollection ==
    /\ load.pc = "done"
    /\ userSaves < MaxUserSaves
    /\ userSaves' = userSaves + 1
    /\ \E c \in Collections : SaveProperties(c)
    /\ UNCHANGED <<githubHost, lastProbe, imgVars, remoteDoc,
                   quota, gets, channel, load, prevSave,
                   sessions, listed, opVars>>

\* The remote store is reachable throughout: the document fetch gets the
\* store's answer, and every write of the document is stored.
NextRoundTrip ==
    \/ LoadFetched(TRUE)
    \/ LoadIdbDone(IdbOutcomes)
    \/ LoadProbeDone(SyncProbeOutcomes)
    \/ SaveCollection
    \/ \E s \in 1..Len(saves) : SaveProbeDone(s, SyncProbeOutcomes)
    \/ \E s \in 1..Len(saves) : SaveProxyDone(s, {"stored"})
    \/ \E s \in 1..Len(saves) : SaveDirectDone(s, {"stored"})
    \/ Reload

SpecRoundTrip == Init /\ [][NextRoundTrip]_vars

\* ================================================================== claims

\* ------------------------------------------------------------------ the detector

\* C4: a saveImageDataUrl call to which isServerAvailable returned false
\* never issues a request to a proxy path (/api/images, /api/supabase/*);
\* the only requests it issues are direct uploads to the object store.
PersistDirectOnly ==
    \A i \in PersistIds :
        persist[i].server = "false" =>
            /\ persist[i].reqs \cap ProxyPaths = {}
            /\ persist[i].reqs \subseteq {ReqDirectImage}

\* a call that was answered false has uploaded directly and finished, after
\* the probe of a concurrent call has set the cache to true
PersistDirectOnlyCase ==
    \E i \in PersistIds :
        /\ persist[i].server = "false"
        /\ persist[i].pc = "done"
        /\ ReqDirectImage \in persist[i].reqs
        /\ serverAvailable = "true"

\* C5: isServerAvailable issues at most one request to the status path in
\* the life of the process, and the cached value never changes once it is
\* set.
DetectorComputedOnce ==
    [][/\ statusRequests' <= 1
       /\ serverAvailable # Null => serverAvailable' = serverAvailable]_vars

\* C6: the probe's response is classified as available exactly when its
\* status is a success and its content type contains application/json; no
\* response at all is classified as unavailable.
JsonContentTypes == {JsonType, JsonType \o <<"; charset=utf-8">>}
ProbeClassification ==
    /\ lastProbe.out.kind = "response" =>
           (lastProbe.result <=> (lastProbe.out.ok /\ lastProbe.out.ct \in JsonContentTypes))
    /\ lastProbe.out.kind \in {"timeout", "neterror"} => ~lastProbe.result
    /\ lastProbe.out.kind # "none" => serverAvailable = BoolStr(lastProbe.result)

\* a 200 response with text/html was classified as unavailable, and a caller
\* took the direct route on it
ProbeClassificationCase ==
    /\ lastProbe.out = [kind |-> "response", ok |-> TRUE, ct |-> <<"text", "/", "html">>]
    /\ ~lastProbe.result
    /\ serverAvailable = "false"
    /\ \E i \in PersistIds : persist[i].server = "false" /\ ReqDirectImage \in persist[i].reqs

\* ------------------------------------------------------------------ the load effect

Range(q) == {q[i] : i \in 1..Len(q)}

\* `res` is `src` after the load effect's own pass over it: the same listings
\* in the same order, the former default title blanked, and of the images
\* only 'idb://' references taken out
Reconciled(src, res) ==
    /\ Len(res) = Len(src)
    /\ \A p \in 1..Len(src) :
        /\ res[p].id = src[p].id
        /\ Field(res[p], "rating") = Field(src[p], "rating")
        /\ res[p].title = (IF src[p].title = LegacyTitle THEN "" ELSE src[p].title)
        /\ res[p].images = SelectSeq(src[p].images, LAMBDA x : x \in Range(res[p].images))
        /\ \A x \in Range(src[p].images) :
               ~StartsWith(x, "idb://") => x \in Range(res[p].images)

\* C1: the load effect takes the array loadApartmentsFromCloud returned when
\* that is a non-empty array, else the content of the local cache, else the
\* empty collection; the collection it sets is that source after the
\* effect's own pass over it, and the local cache holds it whenever
\* localStorage accepts the write.
LoadRemoteFirst ==
    [][(load.pc # "done" /\ load'.pc = "done") =>
          LET cloud == load'.cloud
              fromCloud == ~cloud.null /\ Len(cloud.data) > 0
              source == IF fromCloud THEN cloud.data
                        ELSE IF localItem # Absent THEN localItem.data
                        ELSE <<>>
          IN /\ Reconciled(source, load'.result)
             /\ properties' = load'.result
             /\ (localItem = Absent /\ ~fromCloud) => load'.result = <<>>
             /\ quota = "ok" => localItem' = Stringify(load'.result)]_vars

\* the remote array was adopted over a local cache that held something else,
\* and the local cache now holds it
LoadRemoteFirstCase ==
    /\ load.pc = "done"
    /\ ~load.cloud.null
    /\ Len(load.cloud.data) = 2
    /\ Len(load.result) = 2
    /\ properties = load.result
    /\ localItem = Stringify(load.result)
    /\ sessions = 0

\* a browser-local reference: an idb- key, with or without the idb:// prefix
BrowserLocalKey(img) ==
    IF StartsWith(img, "idb://") THEN Tail(img) ELSE img
BrowserLocal(img) == StartsWith(BrowserLocalKey(img), "idb-")
Broken(img) == BrowserLocal(img) /\ BrowserLocalKey(img) \notin idb
LoadSaves == {s \in 1..Len(saves) : saves[s].origin = "load"}

\* C2: when the loaded collection holds a browser-local reference whose blob
\* is not in IndexedDB, the load effect's collection has exactly those
\* references taken out, the others kept in order, and the effect has issued
\* exactly one remote save, of the cleaned collection.
LoadSelfHeals ==
    load.pc = "done" =>
        /\ Len(load.result) = Len(load.src)
        /\ \A p \in 1..Len(load.src) :
               load.result[p].images =
                   SelectSeq(load.src[p].images, LAMBDA x : ~Broken(x))
        /\ (\E p \in 1..Len(load.src) : \E x \in Range(load.src[p].images) : Broken(x))
               => /\ Cardinality(LoadSaves) = 1
                  /\ \A s \in LoadSaves : saves[s].data = load.result

\* the load effect's own pass leaves the collection `c` as it is: no former
\* default title, no 'idb://' reference; and `c` is not empty
Untouched(c) ==
    /\ c # <<>>
    /\ \A p \in 1..Len(c) :
        /\ c[p].title # LegacyTitle
        /\ \A x \in Range(c[p].images) : ~StartsWith(x, "idb://")

\* C3: with the remote store reachable throughout, a collection handed to
\* saveProperties is, listing by listing and field by field, the collection
\* the load effect of the next page sets; stated for the collections that
\* the load effect's own pass leaves as they are.
SaveLoadRoundTrip ==
    (/\ prevSave.some
     /\ prevSave.origin = "saveProperties"
     /\ Untouched(prevSave.data)
     /\ load.pc = "done")
        => SameCollection(load.result, prevSave.data)

\* ------------------------------------------------------------------ saves

AllSavesDone == \A s \in 1..Len(saves) : saves[s].pc = "done"

\* C7: saveApartmentsToCloud returns true only if the object store accepted
\* the write of the document, through the proxy as well as directly.
SaveOkMeansStored ==
    \A s \in 1..Len(saves) : saves[s].ok = "true" => saves[s].stored

\* C8: when the saves of the page have completed, none is in flight, and
\* each reported success, the remote document and the local cache hold the
\* same collection.
RemoteEqualsLocal ==
    (/\ saves # <<>>
     /\ AllSavesDone
     /\ \A s \in 1..Len(saves) : saves[s].ok = "true")
        => remoteDoc = localItem

\* C9: when the latest saveProperties call was made while earlier ones were
\* still writing, and all those writes have reached the object store, the
\* remote document holds the collection of the latest call.
LaterSaveWins ==
    LET last == Len(saves) IN
    (/\ saves # <<>>
     /\ AllSavesDone
     /\ saves[last].overlaps # {}
     /\ \A s \in saves[last].overlaps \cup {last} :
            saves[s].origin = "saveProperties" /\ saves[s].stored)
        => remoteDoc = Stringify(saves[last].data)

\* the listing `l` is in the collection `c` with its title and its rating
Present(l, c) ==
    \E q \in 1..Len(c) :
        /\ c[q].id = l.id
        /\ c[q].title = l.title
        /\ Field(c[q], "rating") = Field(l, "rating")

\* C10: after a save whose remote write failed, the local cache holds the
\* saved collection; and after the next page load, whatever the remote store
\* answers then, the listings of that save are in the loaded collection.
UnsyncedSurvives ==
    /\ (saves # <<>> /\ AllSavesDone /\ saves[Len(saves)].ok = "false")
           => localItem = Stringify(saves[Len(saves)].data)
    /\ (prevSave.some /\ prevSave.ok = "false" /\ load.pc = "done")
           => \A p \in 1..Len(prevSave.data) : Present(prevSave.data[p], load.result)

\* ------------------------------------------------------------------ saveImageDataUrl: uploads

UploadPaths == {ReqFileImage, ReqProxyImage, ReqDirectImage}
CloudPaths == {ReqProxyImage, ReqDirectImage}

\* C15 (as stated): a saveImageDataUrl call that has returned a key has
\* issued exactly one upload, to the backend the detector's answer selects:
\* through the proxy when it answered true, directly to the object store when
\* it answered false.
PersistOneUpload ==
    \A i \in PersistIds :
        persist[i].pc = "done" =>
            /\ Cardinality(persist[i].reqs \cap UploadPaths) = 1
            /\ persist[i].server = "true" => persist[i].reqs \subseteq ProxyPaths
            /\ persist[i].server = "false" => persist[i].reqs = {ReqDirectImage}

\* C15 (amended): a saveImageDataUrl call that has returned a key was, when
\* the detector answered true, written to the proxy's file store and then
\* uploaded once more to the object store, by the route the cache gave at
\* that moment, or was put into IndexedDB after the file write failed; when
\* the detector answered false it issued one direct upload and nothing else,
\* and the key is the uploaded object's or, after a failed upload, a key of
\* IndexedDB.
PersistUploads ==
    \A i \in PersistIds :
        persist[i].pc = "done" =>
            LET local == StartsWith(persist[i].key, "idb-") IN
            /\ local => persist[i].key \in idb
            /\ (persist[i].server = "true" /\ ~local) =>
                   /\ persist[i].key \in files
                   /\ ReqFileImage \in persist[i].reqs
                   /\ Cardinality(persist[i].reqs \cap CloudPaths) = 1
            /\ (persist[i].server = "true" /\ local) => persist[i].reqs = {ReqFileImage}
            /\ persist[i].server = "false" =>
                   /\ persist[i].reqs = {ReqDirectImage}
                   /\ ~local => persist[i].key \in cloudImages

\* a call answered true has returned the key of the file it wrote, after two
\* uploads: to the file store and to the object store
PersistUploadsCase ==
    \E i \in PersistIds :
        /\ persist[i].pc = "done"
        /\ persist[i].server = "true"
        /\ persist[i].key \in files
        /\ persist[i].reqs = {ReqFileImage, ReqProxyImage}

BrowserLocalRef(j) == StartsWith(resolves[j].ref, "idb-")

\* C17: getImageObjectURL issues no network request for a browser-local
\* (idb-) key and returns null exactly when IndexedDB has no record of it;
\* for a bare, file:// or cloud:// reference it never opens IndexedDB and
\* returns a URL, never null.
ResolveIsolation ==
    \A j \in ResolveIds :
        resolves[j].pc # "idle" =>
            IF BrowserLocalRef(j)
            THEN /\ ~resolves[j].usedNet
                 /\ resolves[j].server = Null
                 /\ resolves[j].pc = "done" =>
                        (resolves[j].url = NoUrl <=> resolves[j].ref \notin idb)
            ELSE /\ ~resolves[j].usedIdb
                 /\ resolves[j].pc \in {"probing", "done"}
                 /\ resolves[j].pc = "done" => resolves[j].url.via \in {"proxy", "public"}

\* a browser-local key without a record has resolved to null while the
\* store holds another record
ResolveIsolationCase ==
    \E j \in ResolveIds :
        /\ resolves[j].pc = "done"
        /\ BrowserLocalRef(j)
        /\ resolves[j].ref \notin idb
        /\ idb # {}
        /\ resolves[j].url = NoUrl
        /\ statusRequests = 0

\* C18 (as stated): a file:// reference resolves to the proxy URL
\* /api/images/<key> in server mode and in standalone mode, never to an
\* object-store URL.
FileRefOnlyThroughProxy ==
    \A j \in ResolveIds :
        (resolves[j].pc = "done" /\ StartsWith(resolves[j].ref, "file://")) =>
            resolves[j].url = FileUrl(Replace(resolves[j].ref, "file://"))

\* C18 (amended): a file:// reference resolves to the proxy URL
\* /api/images/<key> when the detector answers true, and to the object
\* store's public URL of images/<key> when it answers false.
FileRefFollowsDetector ==
    \A j \in ResolveIds :
        (resolves[j].pc = "done" /\ StartsWith(resolves[j].ref, "file://")) =>
            LET key == Replace(resolves[j].ref, "file://") IN
            /\ resolves[j].server \in {"true", "false"}
            /\ resolves[j].server = "true" => resolves[j].url = FileUrl(key)
            /\ resolves[j].server = "false" => resolves[j].url = PublicUrl(key)

\* a file:// reference has resolved in standalone mode, to the public URL
FileRefFollowsDetectorCase ==
    \E j \in ResolveIds :
        /\ resolves[j].pc = "done"
        /\ resolves[j].ref = <<"file://">> \o BareKey("s1")
        /\ resolves[j].server = "false"
        /\ resolves[j].url = PublicUrl(BareKey("s1"))

\* ------------------------------------------------------------------ the service key

\* C19: in server mode no request of the client carries the service key.
\* The direct document write, upload and delete are taken only on a detector
\* answer of false; the list requests of getCloudStorageUsage carry the key
\* on every route, so they are never issued while the cache holds true.
NoClientCredentialInServerMode == "true" \notin listed

\* ------------------------------------------------------------------ deleteProperty: claims

\* the deleteImageKey calls deleteProperty has made for listing id, in call order
CallsOf(id) ==
    SelectSeq(deletes, LAMBDA c : c.from.origin = "deleteProperty" /\ c.from.id = id)

Settled(c) == c.pc \in {"done", "failed"}

\* C13: deleteProperty makes one deleteImageKey call for each reference of
\* the listing that is not inline (data:, blob:), in the listing's order and
\* with the idb:// prefix removed, whatever the kind of the reference and
\* whether the calls before it resolved or rejected; once its loop is over it
\* has made exactly as many calls as the listing has such references, and
\* none for an inline one.
CascadeDeletion ==
    \A d \in 1..Len(deletes) :
        deletes[d].from.origin = "deleteProperty" =>
            LET calls == CallsOf(deletes[d].from.id)
                refs == SelectSeq(deletes[d].from.images,
                                  LAMBDA img : ~StartsWith(img, "data:")
                                               /\ ~StartsWith(img, "blob:"))
                last == calls[Len(calls)]
            IN /\ Len(calls) <= Len(refs)
               /\ \A k \in 1..Len(calls) :
                      /\ calls[k].key \in {refs[k], Replace(refs[k], "idb://")}
                      /\ ~Inline(calls[k].key)
                      /\ k < Len(calls) => Settled(calls[k])
               /\ Settled(last) => Len(calls) = Len(refs)

\* the loop over the listing with seven references, two of them inline, is
\* over after five calls, one of which rejected
CascadeDeletionCase ==
    /\ Len(CallsOf("m")) = 5
    /\ \A k \in 1..5 : Settled(CallsOf("m")[k])
    /\ \E k \in 1..4 : CallsOf("m")[k].pc = "failed"
    /\ \A p \in Range(properties) : p.id # "m"

\* ------------------------------------------------------------------ the save paths: claims

UserOrigins == {"saveProperties", "handleFinalSave"}

\* a step in which saveProperties is called, or handleFinalSave reaches its
\* save
SavePathStep ==
    \/ userSaves' # userSaves
    \/ edit.pc # "saving" /\ edit'.pc = "saving"

\* C11: in the step in which saveProperties or handleFinalSave issues the
\* request that writes the remote document, the local cache already holds
\* the outcome of the write attempted before it: the new collection when
\* localStorage has room for it; and the request is issued, for the whole
\* new collection, whether or not that write succeeded.
SaveOrdering ==
    [][SavePathStep =>
          /\ Len(saves') = Len(saves) + 1
          /\ LET r == saves'[Len(saves')]
             IN /\ r.origin \in UserOrigins
                /\ r.data = properties'
                /\ r.pc \in {"probing", "proxyReq", "directReq"}
                /\ Fits(Stringify(r.data)) => localItem' = Stringify(r.data)
                /\ ~Fits(Stringify(r.data)) =>
                       localItem' \in {localItem, Stringify(Fallback(r.data))}]_vars

\* both handlers have saved, and a collection localStorage had no room for
\* was stored in the remote document
SaveOrderingCase ==
    /\ \A o \in UserOrigins : \E s \in 1..Len(saves) : saves[s].origin = o
    /\ \E s \in 1..Len(saves) :
          /\ ~Fits(Stringify(saves[s].data))
          /\ saves[s].stored
          /\ remoteDoc = Stringify(saves[s].data)
          /\ localItem # Stringify(saves[s].data)

\* C12: on every save path, when localStorage has no room for the new
\* collection, the step leaves in the local cache the copy of the new
\* collection with every listing's images emptied (when there is room for
\* that), and the remote write is issued with the full collection.
QuotaDegradation ==
    [][SavePathStep =>
          LET r == saves'[Len(saves')]
          IN ~Fits(Stringify(r.data)) =>
                 /\ r.data = properties'
                 /\ Fits(Stringify(Fallback(r.data))) =>
                        localItem' = Stringify(Fallback(r.data))]_vars

\* the save a handler issued for the listing a deleteImageKey call belongs to
SaveOf(c, ss) ==
    {s \in 1..Len(ss) :
        IF c.from.origin = "deleteProperty"
        THEN /\ ss[s].origin = "saveProperties"
             /\ \A k \in 1..Len(ss[s].data) : ss[s].data[k].id # c.from.id
        ELSE /\ ss[s].origin = "handleFinalSave"
             /\ \E k \in 1..Len(ss[s].data) :
                   /\ ss[s].data[k].id = c.from.id
                   /\ \A m \in 1..Len(ss[s].data[k].images) :
                          CleanKey(ss[s].data[k].images[m]) # c.key}

\* C14: no deleteImageKey call is made before the save of the handler that
\* makes it has been issued, and a call that rejects changes neither the
\* collection, the local cache, the remote document, the saves in flight nor
\* the handler; in deleteProperty the loop goes on to the next reference.
BestEffortDeletion ==
    [][/\ \A d \in 1..Len(deletes') : SaveOf(deletes'[d], saves') # {}
       /\ \A d \in 1..Len(deletes) :
            (deletes[d].pc # "failed" /\ deletes'[d].pc = "failed") =>
                /\ properties' = properties
                /\ localItem' = localItem
                /\ remoteDoc' = remoteDoc
                /\ saves' = saves
                /\ edit' = edit
                /\ listed' = listed
                /\ deletes[d].rest # <<>> =>
                       /\ Len(deletes') = Len(deletes) + 1
                       /\ deletes'[Len(deletes')].key = Head(deletes[d].rest)]_vars

\* a delete of an image removed in the form has rejected, and the edited
\* collection is stored and cached
BestEffortDeletionCase ==
    \E d \in 1..Len(deletes) : \E s \in SaveOf(deletes[d], saves) :
        /\ deletes[d].from.origin = "handleFinalSave"
        /\ deletes[d].pc = "failed"
        /\ saves[s].stored
        /\ remoteDoc = Stringify(saves[s].data)
        /\ localItem = remoteDoc

HoldsInline(c) ==
    \E k \in 1..Len(c) : \E m \in 1..Len(c[k].images) :
        StartsWith(c[k].images[m], "data:") \/ StartsWith(c[k].images[m], "blob:")

\* C16: no collection handed to saveApartmentsToCloud, and no remote
\* document, holds an image reference that starts with data: or blob:, after
\* any sequence of loads, additions, edits, ratings, reorderings and
\* deletions, and also when an upload fails.
NoInlineInDocument ==
    /\ \A s \in 1..Len(saves) : ~HoldsInline(saves[s].data)
    /\ remoteDoc # Absent => ~HoldsInline(remoteDoc.data)

\* the form held a data URL whose upload failed, and the listing was stored
\* without it
NoInlineInDocumentCase ==
    /\ edit.pc = "saving"
    /\ \E k \in 1..Len(edit.refs) : edit.refs[k] = DataUrl
    /\ persist[edit.call].pc = "failed"
    /\ Len(edit.final) > 0
    /\ \E s \in 1..Len(saves) :
          /\ saves[s].origin = "handleFinalSave"
          /\ saves[s].stored
          /\ remoteDoc = Stringify(saves[s].data)

\* ------------------------------------------------------------------ the load effect: failures

\* C21: the load effect never throws: whatever loadApartmentsFromCloud got
\* (no response, a failure status, text that is not JSON, JSON that is no
\* array) and whatever the local cache holds (nothing, text that is not
\* JSON, JSON that is no array), it ends by setting a collection.
LoadNeverThrows == load.pc # "crashed"

\* ------------------------------------------------------------------ the detector: failures

\* the probe got no usable answer: it timed out, the network failed, or the
\* response has no content-type header
ProbeFailed(out) ==
    \/ out.kind \in {"timeout", "neterror"}
    \/ out.kind = "response" /\ out.ct = NoHeader

\* C22: on a github.io host isServerAvailable answers false and no request
\* to the status path is ever issued; a probe that timed out, failed on the
\* network or got a response without a content-type header is answered
\* false; and every caller that asked resumes with true or false, never with
\* a rejection.
DetectorFailsClosed ==
    /\ githubHost =>
           /\ statusRequests = 0
           /\ serverAvailable \in {Null, "false"}
           /\ \A i \in PersistIds : persist[i].pc # "idle" => persist[i].server = "false"
    /\ ProbeFailed(lastProbe.out) => (~lastProbe.result /\ serverAvailable = "false")
    /\ \A i \in PersistIds :
           persist[i].pc \notin {"idle", "probing"} => persist[i].server \in {"true", "false"}

\* a success response without a content-type header was answered false, and
\* the caller uploaded directly
DetectorFailsClosedCase ==
    /\ lastProbe.out = [kind |-> "response", ok |-> TRUE, ct |-> NoHeader]
    /\ serverAvailable = "false"
    /\ \E i \in PersistIds :
          /\ persist[i].server = "false"
          /\ persist[i].pc = "done"
          /\ persist[i].key \in cloudImages

\* --------------------------------------- the remote document: writers

\* C23: every change of the remote document replaces it by the whole
\* collection of one saveApartmentsToCloud call that was writing it, with
\* nothing of the previous content merged in: after two writers in turn, the
\* document is the later writer's collection.
WholeDocumentWrites ==
    [][remoteDoc' # remoteDoc =>
          \E s \in 1..Len(saves) :
              /\ saves[s].pc \in {"proxyReq", "directReq"}
              /\ saves'[s].stored
              /\ remoteDoc' = Stringify(saves[s].data)
              /\ Len(remoteDoc'.data) = Len(saves[s].data)]_vars

\* two saves were stored in turn, and a listing of the first, which the
\* second does not hold, is not in the document
WholeDocumentWritesCase ==
    /\ Len(saves) = 2
    /\ saves[1].stored /\ saves[2].stored
    /\ remoteDoc = Stringify(saves[2].data)
    /\ \E k \in 1..Len(saves[1].data) :
          /\ \A m \in 1..Len(saves[2].data) : saves[2].data[m].id # saves[1].data[k].id
          /\ \A m \in 1..Len(remoteDoc.data) : remoteDoc.data[m].id # saves[1].data[k].id

\* ------------------------------------------------------------------ the proxy's image cache

\* C24: a GET /api/images/<key> for a key without a local file downloads it
\* from the object store and writes it to the image directory before it is
\* served, so a later GET of the key is served without a request to the
\* object store; when the download fails the answer is 404 and no file is
\* created.
PullThroughCache ==
    [][/\ \A g \in 1..Len(gets') :
            g > Len(gets) =>
                IF gets'[g].key \in files
                THEN gets'[g].pc = "served" /\ ~gets'[g].contacted
                ELSE gets'[g].pc = "downloading" /\ gets'[g].contacted
       /\ \A g \in 1..Len(gets) :
            /\ (gets[g].pc = "downloading" /\ gets'[g].pc = "served") =>
                   (gets[g].key \in cloudImages /\ gets[g].key \in files')
            /\ (gets[g].pc = "downloading" /\ gets'[g].pc = "notFound") =>
                   files' = files]_vars

\* a key was downloaded on its first GET and served from the file on its
\* second, and a download of another key failed
PullThroughCacheCase ==
    /\ Len(gets) = 3
    /\ gets[1].key = gets[2].key
    /\ gets[1].pc = "served" /\ gets[1].contacted
    /\ gets[2].pc = "served" /\ ~gets[2].contacted
    /\ gets[3].pc = "notFound"
    /\ gets[3].key \notin files

\* ------------------------------------------------------------------ saveImageDataUrl: keys

\* C25: any two saveImageDataUrl calls that have returned, returned two
\* distinct keys, whatever their payloads, the time between them and the
\* backends that minted the keys.
PersistKeysDistinct ==
    \A i, j \in PersistIds :
        (i # j /\ persist[i].pc = "done" /\ persist[j].pc = "done")
            => persist[i].key # persist[j].key

\* C26: once a saveImageDataUrl call has returned a key that is no idb- key
\* and its upload to the object store has settled, the object store holds
\* images/<that key>, stored by this call: in server mode as in standalone
\* mode.
PersistKeyInObjectStore ==
    \A i \in PersistIds :
        (/\ persist[i].pc = "done"
         /\ ~StartsWith(persist[i].key, "idb-")
         /\ persist[i].up.pc \notin {"proxyReq", "directReq"})
            => /\ persist[i].up.pc = "ok"
               /\ persist[i].up.key = persist[i].key
               /\ persist[i].key \in cloudImages

\* ------------------------------------------------------------------ the load effect: writes

\* C27: a load effect that took the local cache, because
\* loadApartmentsFromCloud gave it nothing, issues no write of the remote
\* document: neither its cleanup nor its title migration saves the local
\* copy over the document.
LoadFallbackNeverWrites ==
    load.source = "local" =>
        \A s \in 1..Len(saves) : saves[s].origin # "load"

\* the image references of listing p that listing q does not hold
Lost(p, q) == {x \in Range(p.images) : x \notin Range(q.images)}

\* C28: a write of the remote document takes an image reference out of a
\* listing it keeps only when the load effect's cleanup dropped it (an
\* idb:// reference); the handlers at work here are rating and reordering,
\* which remove none.  In particular the images emptied in the local cache by
\* the quota fallback never reach the remote document.
ImagesLeaveOnlyByIntent ==
    [][(remoteDoc' # remoteDoc /\ remoteDoc # Absent) =>
          \A i \in 1..Len(remoteDoc.data) : \A k \in 1..Len(remoteDoc'.data) :
              remoteDoc.data[i].id = remoteDoc'.data[k].id =>
                  \A x \in Lost(remoteDoc.data[i], remoteDoc'.data[k]) :
                      StartsWith(x, "idb://")]_vars

\* --------------------------------------- handleFinalSave: concurrent handlers

\* C29: the collection handleFinalSave sets, caches and posts holds every
\* listing other than the form's as the collection in memory holds it at
\* that moment, with what the handlers that ran during its waits have saved.
NoLostUpdate ==
    [][(edit.pc # "saving" /\ edit'.pc = "saving") =>
          \A j \in 1..Len(properties) :
              properties[j].id # edit'.id =>
                  \E k \in 1..Len(properties') :
                      SameListing(properties'[k], properties[j])]_vars

\* --------------------------------------- the key/value endpoint: polls

\* C30: a poll whose request was issued before the push of the page's latest
\* save had landed does not undo that save: when the collection in memory is
\* the one that save set, the poll's response leaves it, and the local cache,
\* as they are.
PollKeepsSave ==
    [][(/\ channel.code
        /\ channel.poll.pc = "answered" /\ channel'.poll.pc = "idle"
        /\ saves # <<>>
        /\ saves[Len(saves)].origin = "saveProperties"
        /\ properties = saves[Len(saves)].data
        /\ Len(saves) \notin channel.poll.landed)
           => (properties' = properties /\ localItem' = localItem)]_vars

====
